---- MODULE Spec2Model ----
(***************************************************************************)
(* Model of jupiter-swap-api-client/src/lib.rs: the JupiterSwapApiClient   *)
(* facade (quote, swap, swap_instructions) and the response classifier     *)
(* check_status_code_and_deserialize.                                      *)
(*                                                                         *)
(* A call is one invocation of quote / swap / swap_instructions.  Its      *)
(* steps are the code's await points: the request is built and sent, the   *)
(* transport answers send() with an error or a response, the body read     *)
(* bytes() fails or delivers the bytes, and the rest of the classifier     *)
(* runs synchronously on the bytes.                                        *)
(***************************************************************************)
EXTENDS Integers, Sequences, FiniteSets, TLC

VARIABLES base_path, calls, sent, resp

vars == <<base_path, calls, sent, resp>>

(* Number of calls that share one client in the concurrent specification. *)
NumCalls == 2

(* reqwest::StatusCode::INTERNAL_SERVER_ERROR, the sentinel of a failed send. *)
INTERNAL_SERVER_ERROR == 500

----------------------------------------------------------------------------
(* JSON values (serde_json::Value): a tag t and a payload v.  An object is  *)
(* a sequence of <<key, value>> pairs with distinct keys.                   *)

JNull == [t |-> "null"]
JBool(b) == [t |-> "bool", v |-> b]
JNum(n) == [t |-> "num", v |-> n]
JStr(s) == [t |-> "str", v |-> s]
JArr(s) == [t |-> "arr", v |-> s]
JObj(s) == [t |-> "obj", v |-> s]

(* Option::None of Value::get and of Option<HashMap<..>>. *)
None == [t |-> "none"]

Quoted(s) == "\"" \o s \o "\""

(* Value::to_string(): the compact JSON text of a value.  A string keeps    *)
(* its quotes.                                                              *)
RECURSIVE ValueToString(_), ElemsToString(_), MembersToString(_)
ValueToString(val) ==
    CASE val.t = "null" -> "null"
      [] val.t = "bool" -> (IF val.v THEN "true" ELSE "false")
      [] val.t = "num" -> ToString(val.v)
      [] val.t = "str" -> Quoted(val.v)
      [] val.t = "arr" -> "[" \o ElemsToString(val.v) \o "]"
      [] val.t = "obj" -> "{" \o MembersToString(val.v) \o "}"

ElemsToString(s) ==
    IF s = <<>> THEN ""
    ELSE ValueToString(Head(s))
         \o (IF Len(s) > 1 THEN "," ELSE "") \o ElemsToString(Tail(s))

MembersToString(s) ==
    IF s = <<>> THEN ""
    ELSE Quoted(Head(s)[1]) \o ":" \o ValueToString(Head(s)[2])
         \o (IF Len(s) > 1 THEN "," ELSE "") \o MembersToString(Tail(s))

(* Value::get(key): the member of an object, None for a missing key and    *)
(* for every value that is not an object.                                   *)
Get(val, key) ==
    IF val.t = "obj" /\ \E i \in 1..Len(val.v) : val.v[i][1] = key
    THEN val.v[CHOOSE i \in 1..Len(val.v) : val.v[i][1] = key][2]
    ELSE None

(* Option<&Value>::and_then(|v| v.as_str()) *)
AsStr(val) == IF val.t = "str" THEN val ELSE None

----------------------------------------------------------------------------
(* Response bodies: bytes that are not JSON, or the bytes of a JSON value. *)

Malformed == [kind |-> "malformed"]
JsonBytes(val) == [kind |-> "json", val |-> val]
NoBytes == [kind |-> "none"]

(* serde_json::from_slice::<Value>(&bytes) *)
FromSlice(bytes) ==
    IF bytes.kind = "json"
    THEN [ok |-> TRUE, val |-> bytes.val]
    ELSE [ok |-> FALSE, msg |-> "EOF while parsing a value"]

Ops == {"quote", "swap", "swap_instructions"}

(* The success schema of each operation: its required fields and their     *)
(* JSON types, in declaration order.                                        *)
Schema(op) ==
    CASE op = "quote" -> << <<"inAmount", "str">>, <<"outAmount", "str">> >>
      [] op = "swap" -> << <<"swapTransaction", "str">>,
                           <<"lastValidBlockHeight", "num">> >>
      [] op = "swap_instructions" -> << <<"programId", "str">> >>

FieldOk(val, f) == Get(val, f[1]) # None /\ Get(val, f[1]).t = f[2]

Conforms(op, val) ==
    /\ val.t = "obj"
    /\ \A i \in 1..Len(Schema(op)) : FieldOk(val, Schema(op)[i])

(* The typed value a conforming object decodes to: every schema field with *)
(* the value the object gives it.                                           *)
TypedValue(op, val) ==
    [i \in 1..Len(Schema(op)) |-> <<Schema(op)[i][1], Get(val, Schema(op)[i][1])>>]

DecodeError(op, val) ==
    IF val.t # "obj" THEN "invalid type"
    ELSE IF \E i \in 1..Len(Schema(op)) : Get(val, Schema(op)[i][1]) = None
    THEN "missing field"
    ELSE "invalid type"

(* serde_json::from_value::<T>(json_value) *)
FromValue(op, val) ==
    IF Conforms(op, val)
    THEN [ok |-> TRUE, value |-> TypedValue(op, val)]
    ELSE [ok |-> FALSE, msg |-> DecodeError(op, val)]

(* SwapInstructionsResponseInternal -> SwapInstructionsResponse *)
Into(value) == [i \in 1..Len(value) |-> <<value[i][1], [pubkey |-> value[i][2].v]>>]

----------------------------------------------------------------------------
(* JupiterError and the Ok side of Result<T, JupiterError>. *)

Success(value) == [variant |-> "Success", value |-> value]
ApiError(code, msg) == [variant |-> "ApiError", code |-> code, msg |-> msg]
RequestFailed(status_code, msg) ==
    [variant |-> "RequestFailed", status_code |-> status_code, msg |-> msg]

(* Only a string errorCode kept, as as_str() would. *)
ErrorCodeStringsOnly(json_value) ==
    IF Get(json_value, "errorCode") = None \/ Get(json_value, "errorCode").t # "str"
    THEN ""
    ELSE Get(json_value, "errorCode").v

(* .map(|v| v.to_string()).unwrap_or_default() on json_value.get("errorCode") *)

ErrorCode(json_value) ==
    IF Get(json_value, "errorCode") = None THEN ""
    ELSE ValueToString(Get(json_value, "errorCode"))

(* A failed decode replaced by a default value. *)
DecodeOrDefault(op, status, json_value) ==
    IF FromValue(op, json_value).ok
    THEN Success(FromValue(op, json_value).value)
    ELSE Success(<<>>)

(* The typed decode that ends check_status_code_and_deserialize. *)
Decode(op, status, json_value) ==
    IF FromValue(op, json_value).ok
    THEN Success(FromValue(op, json_value).value)
    ELSE RequestFailed(status, FromValue(op, json_value).msg)

(* The error-field check after the typed decode instead of before it. *)
ClassifyValueDecodeFirst(op, status, json_value) ==
    IF FromValue(op, json_value).ok
    THEN Success(FromValue(op, json_value).value)
    ELSE IF AsStr(Get(json_value, "error")) # None
    THEN ApiError(ErrorCode(json_value), AsStr(Get(json_value, "error")).v)
    ELSE RequestFailed(status, FromValue(op, json_value).msg)

(* The error-field check, then the typed decode. *)
ClassifyValue(op, status, json_value) ==
    IF AsStr(Get(json_value, "error")) # None
    THEN ApiError(ErrorCode(json_value), AsStr(Get(json_value, "error")).v)
    ELSE Decode(op, status, json_value)

(* StatusCode::is_success() *)
IsSuccess(status) == 200 <= status /\ status <= 299

(* A parse failure reported as an API error. *)
ClassifyBytesLenient(op, status, bytes) ==
    IF FromSlice(bytes).ok
    THEN ClassifyValue(op, status, FromSlice(bytes).val)
    ELSE ApiError("", FromSlice(bytes).msg)

(* The status gate of the commented-out block, put back. *)
ClassifyBytesGated(op, status, bytes) ==
    IF ~IsSuccess(status)
    THEN RequestFailed(status, "body")
    ELSE IF FromSlice(bytes).ok
    THEN ClassifyValue(op, status, FromSlice(bytes).val)
    ELSE RequestFailed(status, FromSlice(bytes).msg)

(* check_status_code_and_deserialize from the bytes on: parse, then the    *)
(* error-field check, then the typed decode.                                *)
ClassifyBytes(op, status, bytes) ==
    IF FromSlice(bytes).ok
    THEN ClassifyValue(op, status, FromSlice(bytes).val)
    ELSE RequestFailed(status, FromSlice(bytes).msg)

(* swap_instructions: .map(Into::into) on the classifier's result. *)
Finish(op, result) ==
    IF op = "swap_instructions" /\ result.variant = "Success"
    THEN Success(Into(result.value))
    ELSE result

----------------------------------------------------------------------------
(* Requests.  The arguments of a call: the modeled fields of a QuoteRequest *)
(* (a function from field names to values), the extra arguments (None or a  *)
(* map from keys to values) and the SwapRequest.                            *)

Some(map) == [t |-> "some", map |-> map]

(* The modeled fields of InternalQuoteRequest, in declaration order. *)
ModeledOrder == <<"inputMint", "outputMint", "amount">>

ModeledNames == {ModeledOrder[i] : i \in 1..Len(ModeledOrder)}

(* InternalQuoteRequest::from(quote_request.clone()): the modeled fields,   *)
(* without quote_args.                                                      *)
InternalQuoteRequestFrom(fields) == [k \in ModeledNames |-> fields[k]]

(* Serialising a struct as query pairs: one pair per field, in order. *)
StructPairs(internal) ==
    [i \in 1..Len(ModeledOrder) |-> <<ModeledOrder[i], internal[ModeledOrder[i]]>>]

(* The orders in which a HashMap can be iterated: every order of its keys. *)
KeyOrders(map) ==
    {s \in [1..Cardinality(DOMAIN map) -> DOMAIN map] :
        \A i, j \in DOMAIN s : i # j => s[i] # s[j]}

(* Serialising Option<HashMap<String, String>> as query pairs: nothing for *)
(* None, one pair per entry otherwise, in the map's iteration order.        *)
MapPairs(extra_args, order) ==
    IF extra_args = None THEN <<>>
    ELSE [i \in 1..Len(order) |-> <<order[i], extra_args.map[order[i]]>>]

OrdersOf(extra_args) == IF extra_args = None THEN {<<>>} ELSE KeyOrders(extra_args.map)

(* The second .query() left out. *)
QuoteQueryModeledOnly(fields, extra_args, order) ==
    StructPairs(InternalQuoteRequestFrom(fields))

(* RequestBuilder::query twice: each call appends its pairs to the URL. *)
QuoteQuery(fields, extra_args, order) ==
    StructPairs(InternalQuoteRequestFrom(fields)) \o MapPairs(extra_args, order)

Wire(method, url, query, body) ==
    [method |-> method, url |-> url, query |-> query, body |-> body]

NoArgs == [fields |-> <<>>, extra_args |-> None, swap_request |-> "none"]

IdleCall ==
    [pc |-> "idle", op |-> "none", args |-> NoArgs, status |-> 0,
     entered |-> FALSE, results |-> <<>>]

NoResponse ==
    [send |-> "pending", status |-> 0, read |-> "pending", text |-> "",
     bytes |-> NoBytes]

----------------------------------------------------------------------------
(* Inputs. *)

BasePaths == {"https://quote-api.jup.ag/v6", "http://localhost:8080"}

QuoteFields == [inputMint : {"SOL"}, outputMint : {"USDC"}, amount : {"1", "2"}]

ExtraKeys == {"amount", "maxAccounts", "foo"}

ExtraArgs ==
    {None} \cup {Some(m) : m \in UNION {[K -> {"9"}] : K \in SUBSET ExtraKeys}}

SwapRequests == {"swapRequestA"}

StatusCodes == {200, 404, 503}

TransportErrors == {"connection refused", "operation timed out"}

ErrorParts ==
    { <<>>,
      << <<"error", JStr("no route found")>> >>,
      << <<"error", JStr("")>> >>,
      << <<"error", JNum(7)>> >>,
      << <<"error", JNull>> >> }

ErrorCodeParts ==
    { <<>>,
      << <<"errorCode", JNum(42)>> >>,
      << <<"errorCode", JStr("E1")>> >>,
      << <<"errorCode", JStr("")>> >>,
      << <<"errorCode", JBool(TRUE)>> >>,
      << <<"errorCode", JNull>> >>,
      << <<"errorCode", JArr(<<JNum(1), JStr("a")>>)>> >>,
      << <<"errorCode", JObj(<< <<"k", JNum(1)>> >>)>> >> }

Sample(type) == IF type = "str" THEN JStr("100") ELSE JNum(100)

WrongSample(type) == IF type = "str" THEN JNum(100) ELSE JStr("100")

ConformingPart(op) ==
    [i \in 1..Len(Schema(op)) |-> <<Schema(op)[i][1], Sample(Schema(op)[i][2])>>]

MissingPart(op) == SubSeq(ConformingPart(op), 1, Len(Schema(op)) - 1)

WrongTypePart(op) ==
    [i \in 1..Len(Schema(op)) |->
        <<Schema(op)[i][1],
          IF i = 1 THEN WrongSample(Schema(op)[i][2]) ELSE Sample(Schema(op)[i][2])>>]

PayloadParts(op) == {ConformingPart(op), MissingPart(op), WrongTypePart(op)}

Bodies(op) ==
    {Malformed, JsonBytes(JArr(<<>>)), JsonBytes(JStr("error")), JsonBytes(JNum(0))}
    \cup {JsonBytes(JObj(e \o c \o p)) :
            e \in ErrorParts, c \in ErrorCodeParts, p \in PayloadParts(op)}

(* The inputs of the concurrent specification. *)
FewQuoteFields == [inputMint : {"SOL"}, outputMint : {"USDC"}, amount : {"1"}]

FewExtraArgs == {None}

FewStatusCodes == {200, 404}

FewTransportErrors == {"connection refused"}

FewBodies(op) ==
    { Malformed,
      JsonBytes(JObj(<< <<"error", JStr("no route found")>>, <<"errorCode", JNum(42)>> >>)),
      JsonBytes(JObj(ConformingPart(op))),
      JsonBytes(JObj(MissingPart(op))) }

----------------------------------------------------------------------------
(* The client and its calls. *)

(* JupiterSwapApiClient::new(base_path) *)
new(path) == base_path = path

Start(c, op, args, wire) ==
    /\ calls[c].pc = "idle"
    /\ calls' = [calls EXCEPT ![c] = [@ EXCEPT !.pc = "send", !.op = op, !.args = args]]
    /\ sent' = [sent EXCEPT ![c] = Append(@, wire)]
    /\ UNCHANGED <<base_path, resp>>

(* quote up to .send(): GET {base}/quote with both query parts. *)
quote(c, Fields, Extras) ==
    \E fields \in Fields, extra_args \in Extras :
      \E order \in OrdersOf(extra_args) :
        Start(c, "quote",
              [fields |-> fields, extra_args |-> extra_args, swap_request |-> "none"],
              Wire("GET", base_path \o "/quote",
                   QuoteQuery(fields, extra_args, order), <<>>))

(* swap up to .send(): POST {base}/swap, extra arguments as the query. *)
swap(c, Extras) ==
    \E swap_request \in SwapRequests, extra_args \in Extras :
      \E order \in OrdersOf(extra_args) :
        Start(c, "swap",
              [fields |-> <<>>, extra_args |-> extra_args, swap_request |-> swap_request],
              Wire("POST", base_path \o "/swap",
                   MapPairs(extra_args, order), <<"json", swap_request>>))

(* swap_instructions up to .send(): POST {base}/swap-instructions. *)
swap_instructions(c) ==
    \E swap_request \in SwapRequests :
        Start(c, "swap_instructions",
              [fields |-> <<>>, extra_args |-> None, swap_request |-> swap_request],
              Wire("POST", base_path \o "/swap-instructions",
                   <<>>, <<"json", swap_request>>))

Return(call, result) == [call EXCEPT !.pc = "done", !.results = Append(@, result)]

(* A failed send retried instead of returned. *)
SendFailedRetry(c, Texts) ==
    /\ calls[c].pc = "send"
    /\ Len(sent[c]) < 2
    /\ \E text \in Texts :
         resp' = [resp EXCEPT ![c] = [@ EXCEPT !.send = "err", !.text = text]]
    /\ sent' = [sent EXCEPT ![c] = Append(@, Head(@))]
    /\ UNCHANGED <<base_path, calls>>

(* .send().await is an Err: map_err to RequestFailed and return by `?`. *)
SendFailed(c, Texts) ==
    /\ calls[c].pc = "send"
    /\ resp[c].send = "pending"
    /\ \E text \in Texts :
         /\ resp' = [resp EXCEPT ![c] = [@ EXCEPT !.send = "err", !.text = text]]
         /\ calls' = [calls EXCEPT ![c] =
                        Return(@, RequestFailed(INTERNAL_SERVER_ERROR, text))]
    /\ UNCHANGED <<base_path, sent>>

(* .send().await is a response: check_status_code_and_deserialize starts   *)
(* and keeps response.status().                                             *)
ResponseReceived(c, Statuses) ==
    /\ calls[c].pc = "send"
    /\ resp[c].send = "pending"
    /\ \E status \in Statuses :
         /\ resp' = [resp EXCEPT ![c] = [@ EXCEPT !.send = "ok", !.status = status]]
         /\ calls' = [calls EXCEPT ![c] =
                        [@ EXCEPT !.pc = "bytes", !.entered = TRUE, !.status = status]]
    /\ UNCHANGED <<base_path, sent>>

(* The sentinel in place of the response's status. *)
ReadStatusSentinel(c) == INTERNAL_SERVER_ERROR

(* The status a failed body read reports: the local `status`. *)
ReadStatus(c) == calls[c].status

(* response.bytes().await is an Err. *)
BytesFailed(c, Texts) ==
    /\ calls[c].pc = "bytes"
    /\ \E text \in Texts :
         /\ resp' = [resp EXCEPT ![c] = [@ EXCEPT !.read = "err", !.text = text]]
         /\ calls' = [calls EXCEPT ![c] = Return(@, RequestFailed(ReadStatus(c), text))]
    /\ UNCHANGED <<base_path, sent>>

(* A status kept in the client and shared by its calls: the largest seen. *)
StatusOfAny(c) ==
    CHOOSE s \in {calls[d].status : d \in DOMAIN calls} :
        \A d \in DOMAIN calls : s >= calls[d].status

(* The status the classifier attaches to a failure: the local `status`. *)
StatusOf(c) == calls[c].status

(* response.bytes().await is the body: the rest of the classifier. *)
BytesReceived(c, bodies) ==
    /\ calls[c].pc = "bytes"
    /\ \E bytes \in bodies :
         /\ resp' = [resp EXCEPT ![c] = [@ EXCEPT !.read = "ok", !.bytes = bytes]]
         /\ calls' = [calls EXCEPT ![c] =
                        Return(@, Finish(calls[c].op,
                                         ClassifyBytes(calls[c].op, StatusOf(c), bytes)))]
    /\ UNCHANGED <<base_path, sent>>

InitCalls(ids) ==
    /\ \E path \in BasePaths : new(path)
    /\ calls = [c \in ids |-> IdleCall]
    /\ sent = [c \in ids |-> <<>>]
    /\ resp = [c \in ids |-> NoResponse]

(* One call, every input. *)
Init == InitCalls({1})

Next ==
    \/ \E c \in DOMAIN calls : quote(c, QuoteFields, ExtraArgs)
    \/ \E c \in DOMAIN calls : swap(c, ExtraArgs)
    \/ \E c \in DOMAIN calls : swap_instructions(c)
    \/ \E c \in DOMAIN calls : SendFailed(c, TransportErrors)
    \/ \E c \in DOMAIN calls : ResponseReceived(c, StatusCodes)
    \/ \E c \in DOMAIN calls : BytesFailed(c, TransportErrors)
    \/ \E c \in DOMAIN calls : BytesReceived(c, Bodies(calls[c].op))

Spec == Init /\ [][Next]_vars

(* NumCalls calls sharing the client, in any interleaving. *)
InitConc == InitCalls(1..NumCalls)

NextConc ==
    \/ \E c \in DOMAIN calls : quote(c, FewQuoteFields, FewExtraArgs)
    \/ \E c \in DOMAIN calls : swap(c, FewExtraArgs)
    \/ \E c \in DOMAIN calls : swap_instructions(c)
    \/ \E c \in DOMAIN calls : SendFailed(c, FewTransportErrors)
    \/ \E c \in DOMAIN calls : ResponseReceived(c, FewStatusCodes)
    \/ \E c \in DOMAIN calls : BytesFailed(c, FewTransportErrors)
    \/ \E c \in DOMAIN calls : BytesReceived(c, FewBodies(calls[c].op))

SpecConc == InitConc /\ [][NextConc]_vars

----------------------------------------------------------------------------
(* Properties. *)

CallIds == DOMAIN calls

Done(c) == calls[c].pc = "done"

Outcome(c) == calls[c].results[1]

(* The call read its body and the body parsed as JSON. *)
Parsed(c) == Done(c) /\ resp[c].read = "ok" /\ resp[c].bytes.kind = "json"

Body(c) == resp[c].bytes.val

HasField(val, key) == val.t = "obj" /\ \E i \in 1..Len(val.v) : val.v[i][1] = key

Field(val, key) == val.v[CHOOSE i \in 1..Len(val.v) : val.v[i][1] = key][2]

(* The body has a top-level "error" field whose value is a string. *)
StringError(c) ==
    Parsed(c) /\ HasField(Body(c), "error") /\ Field(Body(c), "error").t = "str"

(* Every field of the operation's success schema is in the body, well typed. *)
SchemaFieldsPresent(c) ==
    \A i \in 1..Len(Schema(calls[c].op)) :
        /\ HasField(Body(c), Schema(calls[c].op)[i][1])
        /\ Field(Body(c), Schema(calls[c].op)[i][1]).t = Schema(calls[c].op)[i][2]

(* C1: a body that parses as JSON and has a string-valued top-level "error" *)
(* field gives ApiError with that string as msg, under every status code    *)
(* and also when the body holds every field of the success schema.          *)
C1_ErrorFieldWins ==
    \A c \in CallIds :
        StringError(c) =>
            /\ Outcome(c).variant = "ApiError"
            /\ Outcome(c).msg = Field(Body(c), "error").v

C1_Witness ==
    \E c \in CallIds :
        /\ StringError(c)
        /\ resp[c].status = 200
        /\ SchemaFieldsPresent(c)
        /\ Outcome(c).variant = "ApiError"

(* C2: the code of the ApiError is the JSON text of the "errorCode" field   *)
(* whatever its type (42 gives "42"), and is empty exactly when the field   *)
(* is absent.                                                               *)
C2_ErrorCodeStringified ==
    \A c \in CallIds :
        StringError(c) =>
            /\ HasField(Body(c), "errorCode") =>
                 Outcome(c).code = ValueToString(Field(Body(c), "errorCode"))
            /\ (Outcome(c).code = "") <=> ~HasField(Body(c), "errorCode")
            /\ HasField(Body(c), "errorCode") =>
                 LET ec == Field(Body(c), "errorCode") IN
                   /\ ec = JNum(42) => Outcome(c).code = "42"
                   /\ ec = JStr("E1") => Outcome(c).code = "\"E1\""
                   /\ ec = JStr("") => Outcome(c).code = "\"\""
                   /\ ec = JBool(TRUE) => Outcome(c).code = "true"
                   /\ ec = JNull => Outcome(c).code = "null"
                   /\ ec.t = "arr" => Outcome(c).code = "[1,\"a\"]"
                   /\ ec.t = "obj" => Outcome(c).code = "{\"k\":1}"

C2_Witness ==
    \E c \in CallIds :
        /\ StringError(c)
        /\ HasField(Body(c), "errorCode")
        /\ Field(Body(c), "errorCode") = JNum(42)
        /\ Outcome(c) = ApiError("42", "no route found")

(* C3: two responses with the same body and different status codes give the *)
(* same outcome variant, the same Success value and the same ApiError code  *)
(* and msg; the status shows only as the status_code of a RequestFailed.  A *)
(* conforming body without an error field is a Success under any status.    *)
C3_StatusIsNoGate ==
    \A c, d \in CallIds :
        (/\ Done(c) /\ Done(d)
         /\ resp[c].read = "ok" /\ resp[d].read = "ok"
         /\ calls[c].op = calls[d].op
         /\ resp[c].bytes = resp[d].bytes)
        =>
            /\ Outcome(c).variant = Outcome(d).variant
            /\ Outcome(c).variant = "Success" => Outcome(c).value = Outcome(d).value
            /\ Outcome(c).variant = "ApiError" =>
                 /\ Outcome(c).code = Outcome(d).code
                 /\ Outcome(c).msg = Outcome(d).msg
            /\ Outcome(c).variant = "RequestFailed" =>
                 /\ Outcome(c).status_code = resp[c].status
                 /\ Outcome(c).msg = Outcome(d).msg
            /\ (/\ resp[c].bytes.kind = "json"
                /\ ~HasField(Body(c), "error")
                /\ SchemaFieldsPresent(c))
               => Outcome(c).variant = "Success"

C3_Witness ==
    \E c, d \in CallIds :
        /\ Done(c) /\ Done(d)
        /\ resp[c].read = "ok" /\ resp[d].read = "ok"
        /\ calls[c].op = calls[d].op
        /\ resp[c].bytes = resp[d].bytes
        /\ resp[c].status = 200 /\ resp[d].status = 404
        /\ Outcome(d).variant = "Success"

(* C4: a body that is not valid JSON gives RequestFailed with the status   *)
(* code of the response, under every status code.                           *)
C4_MalformedIsRequestFailed ==
    \A c \in CallIds :
        (Done(c) /\ resp[c].read = "ok" /\ resp[c].bytes = Malformed) =>
            /\ Outcome(c).variant = "RequestFailed"
            /\ Outcome(c).status_code = resp[c].status

C4_Witness ==
    \E c \in CallIds :
        /\ Done(c) /\ resp[c].read = "ok" /\ resp[c].bytes = Malformed
        /\ resp[c].status = 200
        /\ Outcome(c).variant = "RequestFailed"

(* C5: a body that parses, has no string-valued "error" field and does not *)
(* conform to the success schema gives RequestFailed with the status code   *)
(* of the response; a Success always carries every schema field with the    *)
(* value the body gives it.                                                 *)
C5_NoCoercedSuccess ==
    \A c \in CallIds :
        /\ (Parsed(c) /\ ~StringError(c)
            /\ ~(Body(c).t = "obj" /\ SchemaFieldsPresent(c)))
           =>
              /\ Outcome(c).variant = "RequestFailed"
              /\ Outcome(c).status_code = resp[c].status
        /\ (Done(c) /\ Outcome(c).variant = "Success") =>
              /\ Parsed(c)
              /\ Body(c).t = "obj"
              /\ SchemaFieldsPresent(c)
              /\ Len(Outcome(c).value) = Len(Schema(calls[c].op))
              /\ \A i \in 1..Len(Schema(calls[c].op)) :
                   LET key == Schema(calls[c].op)[i][1] IN
                     /\ Outcome(c).value[i][1] = key
                     /\ IF calls[c].op = "swap_instructions"
                        THEN Outcome(c).value[i][2].pubkey = Field(Body(c), key).v
                        ELSE Outcome(c).value[i][2] = Field(Body(c), key)

C5_Witness ==
    \E c \in CallIds :
        /\ Parsed(c) /\ ~StringError(c)
        /\ Body(c).t = "obj"
        /\ ~SchemaFieldsPresent(c)
        /\ HasField(Body(c), Schema(calls[c].op)[1][1])
        /\ Outcome(c).variant = "RequestFailed"

(* C6: a call issues at most one outbound request and produces at most one *)
(* outcome; a completed call has issued exactly one request and ended in    *)
(* exactly one outcome, which is Success, ApiError or RequestFailed.        *)
C6_OneRequestOneOutcome ==
    \A c \in CallIds :
        /\ Len(sent[c]) <= 1
        /\ Len(calls[c].results) <= 1
        /\ calls[c].pc # "idle" => Len(sent[c]) = 1
        /\ Done(c) <=> Len(calls[c].results) = 1
        /\ Done(c) => Outcome(c).variant \in {"Success", "ApiError", "RequestFailed"}

C6_Witness ==
    \E c \in CallIds :
        /\ Done(c)
        /\ resp[c].send = "err"
        /\ Len(sent[c]) = 1
        /\ Len(calls[c].results) = 1

(* C7: a failed send gives RequestFailed with status 500 and the           *)
(* transport's text, and the classifier is not run; a failed body read      *)
(* gives RequestFailed with the status code of the response received.       *)
C7_TransportFailures ==
    \A c \in CallIds :
        /\ (Done(c) /\ resp[c].send = "err") =>
              /\ Outcome(c) = RequestFailed(500, resp[c].text)
              /\ ~calls[c].entered
        /\ (Done(c) /\ resp[c].read = "err") =>
              /\ Outcome(c) = RequestFailed(resp[c].status, resp[c].text)
              /\ calls[c].entered

C7_Witness ==
    \E c \in CallIds :
        /\ Done(c)
        /\ resp[c].read = "err"
        /\ resp[c].status = 404
        /\ Outcome(c).variant = "RequestFailed"

Count(query, key) == Cardinality({i \in DOMAIN query : query[i][1] = key})

ExtraKeysOf(args) == IF args.extra_args = None THEN {} ELSE DOMAIN args.extra_args.map

SentQuote(c) == calls[c].pc # "idle" /\ calls[c].op = "quote"

(* C8: when no extra-argument key is a modeled field name, the query sent  *)
(* to {base}/quote holds every modeled field and every extra argument once, *)
(* with its value, and no other key.                                        *)
C8_QueryHasEachKeyOnce ==
    \A c \in CallIds :
        (SentQuote(c) /\ ExtraKeysOf(calls[c].args) \cap ModeledNames = {}) =>
            LET q == sent[c][1].query
                a == calls[c].args IN
              /\ sent[c][1].url = base_path \o "/quote"
              /\ sent[c][1].method = "GET"
              /\ \A k \in ModeledNames :
                   Count(q, k) = 1 /\ \E i \in DOMAIN q : q[i] = <<k, a.fields[k]>>
              /\ \A k \in ExtraKeysOf(a) :
                   Count(q, k) = 1 /\ \E i \in DOMAIN q : q[i] = <<k, a.extra_args.map[k]>>
              /\ \A i \in DOMAIN q : q[i][1] \in ModeledNames \cup ExtraKeysOf(a)

C8_Witness ==
    \E c \in CallIds :
        /\ SentQuote(c)
        /\ ExtraKeysOf(calls[c].args) = {"maxAccounts", "foo"}
        /\ Len(sent[c][1].query) = 5

(* C9: a key that is both a modeled field and an extra argument appears    *)
(* exactly once in the query of a quote, with the modeled field's value.    *)
C9_OverlapKeyOnce ==
    \A c \in CallIds :
        SentQuote(c) =>
            \A k \in ExtraKeysOf(calls[c].args) \cap ModeledNames :
                /\ Count(sent[c][1].query, k) = 1
                /\ \E i \in DOMAIN sent[c][1].query :
                     sent[c][1].query[i] = <<k, calls[c].args.fields[k]>>

(* The outcome of a call that runs alone on the raw response r. *)
RunAlone(op, r) ==
    IF r.send = "err" THEN RequestFailed(500, r.text)
    ELSE IF r.read = "err" THEN RequestFailed(r.status, r.text)
    ELSE IF FromSlice(r.bytes).ok
    THEN Finish(op, ClassifyValue(op, r.status, FromSlice(r.bytes).val))
    ELSE RequestFailed(r.status, FromSlice(r.bytes).msg)

Path(op) ==
    CASE op = "quote" -> "/quote"
      [] op = "swap" -> "/swap"
      [] op = "swap_instructions" -> "/swap-instructions"

OwnOutcome ==
    \A c \in CallIds :
        /\ Done(c) => calls[c].results = <<RunAlone(calls[c].op, resp[c])>>
        /\ calls[c].pc # "idle" => sent[c][1].url = base_path \o Path(calls[c].op)
        /\ calls[c].pc \in {"bytes", "done"} /\ resp[c].send = "ok" =>
             calls[c].status = resp[c].status

(* C10: in every interleaving of the calls that share a client, base_path  *)
(* never changes and the outcome of each call is the one the call produces  *)
(* alone from its own request and its own raw response.                     *)
C10_CallsAreIndependent == [][base_path' = base_path]_vars /\ []OwnOutcome

C10_Witness ==
    \E c, d \in CallIds :
        /\ c # d
        /\ Done(c) /\ Done(d)
        /\ resp[c].status = 404 /\ resp[d].status = 200
        /\ resp[c].read = "ok" /\ resp[d].read = "ok"
        /\ Outcome(c).variant = "ApiError"
        /\ Outcome(d).variant = "RequestFailed"
        /\ Outcome(d).status_code = 200

====
